---- MODULE Spec2Model ----
(***************************************************************************)
(* Loan and reservation lifecycle of the library management system.        *)
(*                                                                         *)
(* The store is modelled as four collections (books, users, loans,         *)
(* reservations).  Every request handler is a worker that walks through    *)
(* its store operations one at a time; one action is one store operation   *)
(* together with the local computation that precedes it, so concurrent     *)
(* requests interleave between store operations exactly as the goroutines  *)
(* of the HTTP server do.  Values a handler keeps between two store        *)
(* operations (the record it read and will write back) are worker locals.  *)
(*                                                                         *)
(* Time: `now` counts clock ticks, TicksPerDay of them to a day.           *)
(* `instant` orders the time.Now() reads                                   *)
(* of CreateReservation: CreatedAt is only ever compared with Before, so   *)
(* only the order of the creation instants is kept.                        *)
(***************************************************************************)
EXTENDS Integers, Sequences, FiniteSets, TLC

(* ---- bounds of the model ---- *)
NumUsers    == 3
NumBooks    == 1
MaxLoanRecs == 2
MaxRes      == 3
NumCodes    == 2
MaxInFlight == 2
ConcRes     == 2
ConcRecords == 3
SeqRes      == 2
SeqRecords  == 3
ClockLoans  == 2
ClockRes    == 1
ClockRecords == 3
MaxTicks    == 2
TicksPerDay == 2
InitCopies  == 1
MaxAvail    == 2
InitMaxLoans == 1
StaffMaxLoans == 2
StaffLoans == 2
StaffRecords == 3
StaffTicks == 1
ConcUsers == 2
SeqUsers == 2
QueueLoans == 1
QueueRecords == 3
QueueInFlight == 2
LedgerInFlight == 2
LedgerUsers == 2
LedgerLoans == 2
CatalogInFlight == 2
CatalogUsers == 2
CatalogLoans == 1
CatalogTicks == 1
EditInFlight == 2
EditLoans == 2
ClaimInFlight == 2
ClaimUsers == 2
ClaimLoans == 2
ClaimRes == 2
ClaimRecords == 4
RaceInFlight == 2
RaceUsers == 2
RaceLoans == 1
RaceRes == 2
RaceRecords == 3
RaceTicks == 1

(* ---- program constants ---- *)
LoanPeriodDays   == 14
ReadyWindowDays  == 3
ReserveExpiryDays == 7
FinePerDay       == 1

\* Durations in clock ticks.
Days(n) == n * TicksPerDay

Users   == 1..NumUsers
Books   == 1..NumBooks
LoanIds == 1..MaxLoanRecs
ResIds  == 1..MaxRes
Codes   == 1..NumCodes
Workers == 1..MaxInFlight

VARIABLES books, users, loans, reservations, now, instant, workers, last, ticks

vars == <<books, users, loans, reservations, now, instant, workers, last, ticks>>
store == <<books, users, loans, reservations>>

(* ---- records ---- *)
NoLoan == [bookId |-> 0, userId |-> 0, pickupCode |-> 0, status |-> "none",
           dueDate |-> 0, returnDate |-> 0, fineAmount |-> 0]
NoRes  == [bookId |-> 0, userId |-> 0, status |-> "none",
           createdAt |-> 0, expiryDate |-> 0]
NoUser == [isActive |-> FALSE, maxLoans |-> 0, currentLoans |-> 0]
NoBook == [totalCopies |-> 0, availableCopies |-> 0]

IdleWorker == [op |-> "none", pc |-> "idle", uid |-> 0, bid |-> 0, lid |-> 0,
               rid |-> 0, next |-> 0, code |-> 0,
               snapL |-> NoLoan, snapU |-> NoUser, snapB |-> NoBook,
               snapR |-> NoRes, reservation |-> NoRes]

\* The response of the request that finished last: the operation and its
\* arguments, the result reported to the caller, and what its final store
\* operation did (effect).
NoResponse == [op |-> "none", uid |-> 0, bid |-> 0, lid |-> 0, rid |-> 0,
               next |-> 0, code |-> 0, result |-> "none", effect |-> "none"]

(* ---- models: pure methods ---- *)
\* Mutant of IsAvailable: the availability test always passes.
IsAvailable_Always(b) == TRUE

IsAvailable(b) == b.availableCopies > 0

\* Mutant of DecrementAvailableCopies: the decrement is dropped.
DecrementAvailableCopies_Dropped(b) == b

DecrementAvailableCopies(b) ==
    IF b.availableCopies > 0
    THEN [b EXCEPT !.availableCopies = @ - 1]
    ELSE b

IncrementAvailableCopies(b) ==
    IF b.availableCopies < b.totalCopies
    THEN [b EXCEPT !.availableCopies = @ + 1]
    ELSE b

CanBorrow(u) == u.isActive /\ u.currentLoans < u.maxLoans

IsOverdue(l, t) == l.status = "active" /\ t > l.dueDate

\* int(time.Since(DueDate).Hours() / 24): whole days, truncated.
CalculateFine(l, t) ==
    IF ~IsOverdue(l, t) THEN 0
    ELSE LET daysOverdue == (t - l.dueDate) \div TicksPerDay
         IN IF daysOverdue < 0 THEN 0 ELSE daysOverdue * FinePerDay

IsExpired(r, t) == r.status = "ready" /\ t > r.expiryDate

\* Mutant of CanBeCompleted: the expiry test is dropped.
CanBeCompleted_IgnoresExpiry(r, t) == r.status = "ready"

CanBeCompleted(r, t) == r.status = "ready" /\ ~IsExpired(r, t)

(* ---- store queries ---- *)
ExistingLoans == {l \in LoanIds : loans[l].status # "none"}
ExistingRes   == {r \in ResIds : reservations[r].status # "none"}
FreeLoanIds   == LoanIds \ ExistingLoans
FreeResIds    == ResIds \ ExistingRes

\* The orders in which a query without OrderBy can deliver the reservation
\* documents: document ids are random, so any order of the ids.
ScanOrders == {o \in [1..MaxRes -> ResIds] : \A i, j \in 1..MaxRes : o[i] = o[j] => i = j}

\* Mutant of Before: the comparison reversed, so the scan keeps the newest.
Before_Reversed(a, b) == a > b

\* r.CreatedAt.Before(oldest.CreatedAt)
Before(a, b) == a < b

\* The loop of GetNextReservation over the documents order[i..]: keep the
\* first pending reservation of the book and replace it only by one created
\* strictly Before it.  0 is nil.
RECURSIVE ScanOldest(_, _, _, _)
ScanOldest(order, bookId, i, oldest) ==
    IF i > MaxRes THEN oldest
    ELSE LET r == order[i] IN
         IF reservations[r].status = "pending" /\ reservations[r].bookId = bookId
            /\ (oldest = 0 \/ Before(reservations[r].createdAt,
                                     reservations[oldest].createdAt))
         THEN ScanOldest(order, bookId, i + 1, r)
         ELSE ScanOldest(order, bookId, i + 1, oldest)

\* Mutant of GetNextReservation: the queue is never consulted.
GetNextReservation_Nil(order, bookId) == 0

GetNextReservation(order, bookId) == ScanOldest(order, bookId, 1, 0)

\* Loans matched by ConfirmPickup's query (pickup_code == code, status ==
\* pending_pickup); Limit(1) returns any one of them.
\* Mutant of PickupMatches: the status filter of the query is dropped.
PickupMatches_AnyStatus(code) ==
    {l \in LoanIds : loans[l].status # "none" /\ loans[l].pickupCode = code}

PickupMatches(code) ==
    {l \in LoanIds : loans[l].status = "pending_pickup"
                     /\ loans[l].pickupCode = code}

\* ReserveBook's scan of the user's reservations for an active one on the book.
HasActiveReservation(userId, bookId) ==
    \E r \in ResIds : /\ reservations[r].userId = userId
                      /\ reservations[r].bookId = bookId
                      /\ reservations[r].status \in {"pending", "ready"}

\* Client.GetBook fails for a book whose document has been deleted.
BookMissing(id) == books[id] = NoBook

\* Client.HasActiveLoans: some loan of the book has status active.
HasActiveLoans(bookID) ==
    \E l \in LoanIds : loans[l].bookId = bookID /\ loans[l].status = "active"

(* ---- worker bookkeeping ---- *)
Free(w) == workers[w].pc = "idle"
InFlight == {w \in Workers : ~Free(w)}

\* Requests that will still create a loan / a reservation record.
PendingLoanCreates ==
    {w \in Workers : workers[w].pc \in
        {"borrow_getbook", "borrow_create", "bfr_getuser", "bfr_create"}}
PendingResCreates ==
    {w \in Workers : workers[w].pc \in {"reserve_check", "reserve_create"}}

\* A configuration bounds the requests in flight and the records created.
Planned == Cardinality(ExistingLoans) + Cardinality(PendingLoanCreates)
           + Cardinality(ExistingRes) + Cardinality(PendingResCreates)
LoanRoom(cfg) ==
    /\ Cardinality(ExistingLoans) + Cardinality(PendingLoanCreates) < cfg.loans
    /\ Planned < cfg.records
ResRoom(cfg) ==
    /\ Cardinality(ExistingRes) + Cardinality(PendingResCreates) < cfg.res
    /\ Planned < cfg.records

CanStart(w, cfg) == Free(w) /\ Cardinality(InFlight) < cfg.inflight

\* Requests that may still write availableCopies + 1 to the book.
PendingReleases ==
    {w \in Workers : workers[w].op \in {"Return", "Cancel"}}

\* Bound of the model on availableCopies, which the code does not bound.
AvailRoom == \A b \in Books :
    books[b].availableCopies + Cardinality(PendingReleases) < MaxAvail

Response(rec, res, eff) ==
    [op |-> rec.op, uid |-> rec.uid, bid |-> rec.bid, lid |-> rec.lid,
     rid |-> rec.rid, next |-> rec.next, code |-> rec.code,
     result |-> res, effect |-> eff]

\* The worker keeps going with rec.
SetW(w, rec) ==
    /\ workers' = [workers EXCEPT ![w] = rec]
    /\ UNCHANGED last

\* The request of rec ends with result res.  The response is recorded only
\* in configurations that observe responses.
Done(w, cfg, rec, res, eff) ==
    /\ workers' = [workers EXCEPT ![w] = IdleWorker]
    /\ last' = IF cfg.observe THEN Response(rec, res, eff) ELSE last

Init ==
    /\ books = [b \in Books |-> [totalCopies |-> InitCopies,
                                 availableCopies |-> InitCopies]]
    /\ users = [u \in Users |-> [isActive |-> TRUE, maxLoans |-> InitMaxLoans,
                                 currentLoans |-> 0]]
    /\ loans = [l \in LoanIds |-> NoLoan]
    /\ reservations = [r \in ResIds |-> NoRes]
    /\ now = 0
    /\ instant = 0
    /\ workers = [w \in Workers |-> IdleWorker]
    /\ last = NoResponse
    /\ ticks = 0

(***************************************************************************)
(* BooksHandler.BorrowBook                                                 *)
(***************************************************************************)
BorrowBook_GetUser(w, cfg, u, b) ==
    /\ CanStart(w, cfg)
    /\ LoanRoom(cfg)
    /\ LET rec == [IdleWorker EXCEPT !.op = "Borrow", !.uid = u, !.bid = b]
           user == users[u]
       IN IF ~CanBorrow(user)
          THEN Done(w, cfg, rec, IF user.currentLoans >= user.maxLoans
                            THEN "LoanLimitExceeded"
                            ELSE "AccountInactive", "none")
          ELSE SetW(w, [rec EXCEPT !.pc = "borrow_getbook"])
    /\ UNCHANGED <<store, now, instant, ticks>>

BorrowBook_GetBook(w, cfg) ==
    /\ workers[w].pc = "borrow_getbook"
    /\ IF BookMissing(workers[w].bid)
       THEN Done(w, cfg, workers[w], "NotFound", "none")
       ELSE IF ~IsAvailable(books[workers[w].bid])
       THEN Done(w, cfg, workers[w], "Unavailable", "none")
       ELSE SetW(w, [workers[w] EXCEPT !.pc = "borrow_create"])
    /\ UNCHANGED <<store, now, instant, ticks>>

\* Client.CreateLoan: status pending_pickup, fresh random code, DueDate zero.
CreateLoan(l, bookId, userId, code) ==
    loans' = [loans EXCEPT ![l] = [bookId |-> bookId, userId |-> userId,
                                   pickupCode |-> code,
                                   status |-> "pending_pickup",
                                   dueDate |-> 0, returnDate |-> 0,
                                   fineAmount |-> 0]]

BorrowBook_CreateLoan(w, cfg) ==
    /\ workers[w].pc = "borrow_create"
    /\ \E code \in 1..cfg.codes :
       LET l == CHOOSE x \in FreeLoanIds : \A y \in FreeLoanIds : x <= y IN
         /\ CreateLoan(l, workers[w].bid, workers[w].uid, code)
         /\ SetW(w, [workers[w] EXCEPT !.pc = "borrow_decrement", !.lid = l,
                                         !.code = code])
    /\ UNCHANGED <<books, users, reservations, now, instant, ticks>>

\* Mutant of UpdateBookAvailability: the decrement is written without the
\* availability check.
UpdateBookAvailability_Unchecked(b, increment) ==
    IF b = NoBook THEN b
    ELSE IF increment THEN IncrementAvailableCopies(b)
    ELSE [b EXCEPT !.availableCopies = @ - 1]

\* Client.UpdateBookAvailability: one transaction on the book document.  It
\* fails, writing nothing, when the document is missing or when a decrement
\* finds no copy available.
UpdateBookAvailability(b, increment) ==
    IF b = NoBook THEN b
    ELSE IF increment THEN IncrementAvailableCopies(b)
    ELSE IF ~IsAvailable(b) THEN b
    ELSE DecrementAvailableCopies(b)

\* Mutant of BorrowBook_Decrement: a failed decrement removes the loan and
\* fails the request.
BorrowBook_Decrement_Aborts(w, cfg) ==
    /\ workers[w].pc = "borrow_decrement"
    /\ IF ~IsAvailable(books[workers[w].bid])
       THEN /\ loans' = [loans EXCEPT ![workers[w].lid] = NoLoan]
            /\ books' = books
            /\ Done(w, cfg, workers[w], "Unavailable", "none")
       ELSE /\ books' = [books EXCEPT ![workers[w].bid] =
                           UpdateBookAvailability(@, FALSE)]
            /\ loans' = loans
            /\ SetW(w, [workers[w] EXCEPT !.pc = "borrow_incuser"])
    /\ UNCHANGED <<users, reservations, now, instant, ticks>>

BorrowBook_Decrement(w, cfg) ==
    /\ workers[w].pc = "borrow_decrement"
    /\ books' = [books EXCEPT ![workers[w].bid] = UpdateBookAvailability(@, FALSE)]
    /\ SetW(w, [workers[w] EXCEPT !.pc = "borrow_incuser"])
    /\ UNCHANGED <<users, loans, reservations, now, instant, ticks>>

\* Client.UpdateUserLoansCount: server-side firestore.Increment(delta).
UpdateUserLoansCount(u, increment) ==
    [u EXCEPT !.currentLoans = @ + (IF increment THEN 1 ELSE -1)]

\* books.go 543-546: an error of UpdateUserLoansCount is only logged.  The
\* store call fails only in configurations with store faults.
BorrowBook_IncUser(w, cfg) ==
    /\ workers[w].pc = "borrow_incuser"
    /\ users' \in {[users EXCEPT ![workers[w].uid] = UpdateUserLoansCount(@, TRUE)]}
                  \cup (IF cfg.faults THEN {users} ELSE {})
    /\ Done(w, cfg, workers[w], "ok", "none")
    /\ UNCHANGED <<books, loans, reservations, now, instant, ticks>>

(***************************************************************************)
(* StaffHandler.ConfirmPickup / Client.ConfirmPickup                       *)
(***************************************************************************)
ConfirmPickup_Query(w, cfg, code) ==
    /\ CanStart(w, cfg)
    /\ LET rec == [IdleWorker EXCEPT !.op = "Confirm", !.code = code]
       IN IF PickupMatches(code) = {}
          THEN Done(w, cfg, rec, "CodeNotFound", "none")
          ELSE \E l \in PickupMatches(code) :
                 SetW(w, [rec EXCEPT !.pc = "confirm_set", !.lid = l,
                                     !.snapL = loans[l]])
    /\ UNCHANGED <<store, now, instant, ticks>>

\* Mutant of ConfirmPickup_Set: the pickup takes a copy from the pool again.
ConfirmPickup_Set_Decrements(w, cfg) ==
    /\ workers[w].pc = "confirm_set"
    /\ loans' = [loans EXCEPT ![workers[w].lid] =
                    [workers[w].snapL EXCEPT !.status = "active",
                                             !.dueDate = now + Days(LoanPeriodDays)]]
    /\ books' = [books EXCEPT ![loans[workers[w].lid].bookId] =
                    DecrementAvailableCopies(@)]
    /\ Done(w, cfg, workers[w], "ok", "none")
    /\ UNCHANGED <<users, reservations, now, instant, ticks>>

ConfirmPickup_Set(w, cfg) ==
    /\ workers[w].pc = "confirm_set"
    /\ loans' = [loans EXCEPT ![workers[w].lid] =
                    [workers[w].snapL EXCEPT !.status = "active",
                                             !.dueDate = now + Days(LoanPeriodDays)]]
    /\ Done(w, cfg, workers[w], "ok", "none")
    /\ UNCHANGED <<books, users, reservations, now, instant, ticks>>

(***************************************************************************)
(* StaffHandler.ReturnLoan / Client.ReturnLoan                             *)
(***************************************************************************)
\* Mutant of ReturnedLoan: the fine is computed without the overdue test,
\* from the distance between the return and the due date.
ReturnedLoan_AlwaysFined(l, t) ==
    [l EXCEPT !.returnDate = t, !.status = "returned",
              !.fineAmount = (IF t > l.dueDate THEN t - l.dueDate
                              ELSE l.dueDate - t) * FinePerDay]

\* client.go 364-372: the loan as ReturnLoan prepares it before UpdateLoan.
\* Status is set to returned first; the fine is then taken from
\* IsOverdue / CalculateFine of that updated loan.
ReturnedLoan(l, t) ==
    LET r == [l EXCEPT !.returnDate = t, !.status = "returned"]
    IN IF IsOverdue(r, t)
       THEN [r EXCEPT !.fineAmount = CalculateFine(r, t)]
       ELSE r

\* Mutant of ReturnLoan_GetLoan: the status check is dropped.
ReturnLoan_GetLoan_Unchecked(w, cfg, l) ==
    /\ CanStart(w, cfg)
    /\ AvailRoom
    /\ LET rec == [IdleWorker EXCEPT !.op = "Return", !.lid = l]
           loan == loans[l]
       IN IF loan.status = "none"
          THEN Done(w, cfg, rec, "NotFound", "none")
          ELSE SetW(w, [rec EXCEPT !.pc = "return_updateloan",
                                   !.uid = loan.userId, !.bid = loan.bookId,
                                   !.snapL = ReturnedLoan(loan, now)])
    /\ UNCHANGED <<store, now, instant, ticks>>

ReturnLoan_GetLoan(w, cfg, l) ==
    /\ CanStart(w, cfg)
    /\ AvailRoom
    /\ LET rec == [IdleWorker EXCEPT !.op = "Return", !.lid = l]
           loan == loans[l]
       IN IF loan.status = "none"
          THEN Done(w, cfg, rec, "NotFound", "none")
          ELSE IF loan.status # "active"
          THEN Done(w, cfg, rec, "NotActive", "none")
          ELSE SetW(w, [rec EXCEPT !.pc = "return_updateloan",
                                   !.uid = loan.userId, !.bid = loan.bookId,
                                   !.snapL = ReturnedLoan(loan, now)])
    /\ UNCHANGED <<store, now, instant, ticks>>

ReturnLoan_UpdateLoan(w, cfg) ==
    /\ workers[w].pc = "return_updateloan"
    /\ loans' = [loans EXCEPT ![workers[w].lid] = workers[w].snapL]
    /\ SetW(w, [workers[w] EXCEPT !.pc = "return_getuser", !.snapL = NoLoan])
    /\ UNCHANGED <<books, users, reservations, now, instant, ticks>>

ReturnLoan_GetUser(w, cfg) ==
    /\ workers[w].pc = "return_getuser"
    /\ LET user == users[workers[w].uid]
       IN IF user.currentLoans > 0
          THEN SetW(w, [workers[w] EXCEPT !.pc = "return_updateuser",
                            !.snapU = [user EXCEPT !.currentLoans = @ - 1]])
          ELSE SetW(w, [workers[w] EXCEPT !.pc = "return_getnext"])
    /\ UNCHANGED <<store, now, instant, ticks>>

ReturnLoan_UpdateUser(w, cfg) ==
    /\ workers[w].pc = "return_updateuser"
    /\ users' = [users EXCEPT ![workers[w].uid] = workers[w].snapU]
    /\ SetW(w, [workers[w] EXCEPT !.pc = "return_getnext", !.snapU = NoUser])
    /\ UNCHANGED <<books, loans, reservations, now, instant, ticks>>

ReturnLoan_GetNext(w, cfg) ==
    /\ workers[w].pc = "return_getnext"
    /\ \E order \in ScanOrders :
       LET nextReservation == GetNextReservation(order, workers[w].bid)
       IN IF nextReservation # 0
          THEN SetW(w, [workers[w] EXCEPT !.pc = "markready_get",
                                          !.next = nextReservation])
          ELSE SetW(w, [workers[w] EXCEPT !.pc = "return_getbook"])
    /\ UNCHANGED <<store, now, instant, ticks>>

ReturnLoan_GetBook(w, cfg) ==
    /\ workers[w].pc = "return_getbook"
    /\ IF BookMissing(workers[w].bid)
       THEN Done(w, cfg, workers[w], "NotFound", "none")
       ELSE SetW(w, [workers[w] EXCEPT !.pc = "return_updatebook",
                         !.snapB = [books[workers[w].bid] EXCEPT
                                        !.availableCopies = @ + 1]])
    /\ UNCHANGED <<store, now, instant, ticks>>

\* Client.UpdateBook refuses to write a book that no longer exists.
ReturnLoan_UpdateBook(w, cfg) ==
    /\ workers[w].pc = "return_updatebook"
    /\ IF BookMissing(workers[w].bid)
       THEN /\ books' = books
            /\ Done(w, cfg, workers[w], "NotFound", "none")
       ELSE /\ books' = [books EXCEPT ![workers[w].bid] = workers[w].snapB]
            /\ Done(w, cfg, workers[w], "ok",
                    IF workers[w].snapB.availableCopies
                           = books[workers[w].bid].availableCopies + 1
                    THEN "released" ELSE "none")
    /\ UNCHANGED <<users, loans, reservations, now, instant, ticks>>

(***************************************************************************)
(* Client.MarkReservationReady, called by ReturnLoan and by the            *)
(* CancelReservation handler.  ReturnLoan returns its error to the caller; *)
(* the CancelReservation handler only logs it.                             *)
(***************************************************************************)
\* Mutant of MarkReservationReady_Get: the status check is dropped.
MarkReservationReady_Get_Unchecked(w, cfg) ==
    /\ workers[w].pc = "markready_get"
    /\ LET reservation == reservations[workers[w].next]
       IN SetW(w, [workers[w] EXCEPT !.pc = "markready_set",
                       !.snapR = [reservation EXCEPT
                           !.status = "ready",
                           !.expiryDate = now + Days(ReadyWindowDays)]])
    /\ UNCHANGED <<store, now, instant, ticks>>

MarkReservationReady_Get(w, cfg) ==
    /\ workers[w].pc = "markready_get"
    /\ LET reservation == reservations[workers[w].next]
       IN IF reservation.status # "pending"
          THEN Done(w, cfg, workers[w],
                    IF workers[w].op = "Return" THEN "MarkReadyFailed" ELSE "ok",
                    "conflict")
          ELSE SetW(w, [workers[w] EXCEPT !.pc = "markready_set",
                            !.snapR = [reservation EXCEPT
                                !.status = "ready",
                                !.expiryDate = now + Days(ReadyWindowDays)]])
    /\ UNCHANGED <<store, now, instant, ticks>>

MarkReservationReady_Set(w, cfg) ==
    /\ workers[w].pc = "markready_set"
    /\ reservations' = [reservations EXCEPT ![workers[w].next] = workers[w].snapR]
    /\ Done(w, cfg, workers[w], "ok",
            IF reservations[workers[w].next].status = "pending"
            THEN "marked" ELSE "none")
    /\ UNCHANGED <<books, users, loans, now, instant, ticks>>

(***************************************************************************)
(* BooksHandler.ReserveBook / Client.CreateReservation                     *)
(***************************************************************************)
ReserveBook_GetUser(w, cfg, u, b) ==
    /\ CanStart(w, cfg)
    /\ ResRoom(cfg)
    /\ LET rec == [IdleWorker EXCEPT !.op = "Reserve", !.uid = u, !.bid = b]
       IN IF ~users[u].isActive
          THEN Done(w, cfg, rec, "AccountInactive", "none")
          ELSE SetW(w, [rec EXCEPT !.pc = "reserve_check"])
    /\ UNCHANGED <<store, now, instant, ticks>>

ReserveBook_CheckExisting(w, cfg) ==
    /\ workers[w].pc = "reserve_check"
    /\ IF HasActiveReservation(workers[w].uid, workers[w].bid)
       THEN Done(w, cfg, workers[w], "AlreadyReserved", "none")
       ELSE SetW(w, [workers[w] EXCEPT !.pc = "reserve_create"])
    /\ UNCHANGED <<store, now, instant, ticks>>

\* Client.CreateReservation: the document id is random (NewDoc), CreatedAt is
\* the creation instant, the handler's ExpiryDate is kept because it is set.
CreateReservation(r, bookId, userId, expiry) ==
    /\ instant' = instant + 1
    /\ reservations' = [reservations EXCEPT ![r] =
           [bookId |-> bookId, userId |-> userId, status |-> "pending",
            createdAt |-> instant + 1, expiryDate |-> expiry]]

ReserveBook_Create(w, cfg) ==
    /\ workers[w].pc = "reserve_create"
    /\ LET r == CHOOSE x \in FreeResIds : \A y \in FreeResIds : x <= y IN
         /\ CreateReservation(r, workers[w].bid, workers[w].uid,
                              now + Days(ReserveExpiryDays))
         /\ Done(w, cfg, [workers[w] EXCEPT !.rid = r], "ok", "none")
    /\ UNCHANGED <<books, users, loans, now, ticks>>

(***************************************************************************)
(* UserHandler.CancelReservation / Client.CancelReservation                *)
(***************************************************************************)
\* Mutant of CancelReservation_Get: the owner check is dropped.
CancelReservation_Get_AnyUser(w, cfg, u, r) ==
    /\ CanStart(w, cfg)
    /\ AvailRoom
    /\ LET rec == [IdleWorker EXCEPT !.op = "Cancel", !.uid = u, !.rid = r]
           reservation == reservations[r]
       IN IF reservation.status = "none"
          THEN Done(w, cfg, rec, "NotFound", "none")
          ELSE SetW(w, [rec EXCEPT !.pc = "cancel_check",
                                   !.bid = reservation.bookId,
                                   !.reservation = reservation])
    /\ UNCHANGED <<store, now, instant, ticks>>

CancelReservation_Get(w, cfg, u, r) ==
    /\ CanStart(w, cfg)
    /\ AvailRoom
    /\ LET rec == [IdleWorker EXCEPT !.op = "Cancel", !.uid = u, !.rid = r]
           reservation == reservations[r]
       IN IF reservation.status = "none"
          THEN Done(w, cfg, rec, "NotFound", "none")
          ELSE IF reservation.userId # u
          THEN Done(w, cfg, rec, "Forbidden", "none")
          ELSE SetW(w, [rec EXCEPT !.pc = "cancel_check",
                                   !.bid = reservation.bookId,
                                   !.reservation = reservation])
    /\ UNCHANGED <<store, now, instant, ticks>>

\* Mutant of CancelReservation_Check: a completed reservation is cancelled
\* like any other.
CancelReservation_Check_AnyStatus(w, cfg) ==
    /\ workers[w].pc = "cancel_check"
    /\ LET reservation == reservations[workers[w].rid]
       IN SetW(w, [workers[w] EXCEPT !.pc = "cancel_set",
                       !.snapR = [reservation EXCEPT !.status = "cancelled"]])
    /\ UNCHANGED <<store, now, instant, ticks>>

CancelReservation_Check(w, cfg) ==
    /\ workers[w].pc = "cancel_check"
    /\ LET reservation == reservations[workers[w].rid]
       IN IF reservation.status = "completed"
          THEN Done(w, cfg, workers[w], "AlreadyCompleted", "none")
          ELSE SetW(w, [workers[w] EXCEPT !.pc = "cancel_set",
                            !.snapR = [reservation EXCEPT !.status = "cancelled"]])
    /\ UNCHANGED <<store, now, instant, ticks>>

CancelReservation_Set(w, cfg) ==
    /\ workers[w].pc = "cancel_set"
    /\ reservations' = [reservations EXCEPT ![workers[w].rid] = workers[w].snapR]
    /\ SetW(w, [workers[w] EXCEPT !.pc = "cancel_getnext", !.snapR = NoRes])
    /\ UNCHANGED <<books, users, loans, now, instant, ticks>>

CancelReservation_GetNext(w, cfg) ==
    /\ workers[w].pc = "cancel_getnext"
    /\ \E order \in ScanOrders :
       LET nextReservation == GetNextReservation(order, workers[w].bid)
       IN IF nextReservation # 0
          THEN SetW(w, [workers[w] EXCEPT !.pc = "markready_get",
                                          !.next = nextReservation])
          ELSE SetW(w, [workers[w] EXCEPT !.pc = "cancel_getbook"])
    /\ UNCHANGED <<store, now, instant, ticks>>

\* helpers.go 480-489: a failure of GetBook or UpdateBook is only logged.
CancelReservation_GetBook(w, cfg) ==
    /\ workers[w].pc = "cancel_getbook"
    /\ IF BookMissing(workers[w].bid)
       THEN Done(w, cfg, workers[w], "ok", "none")
       ELSE SetW(w, [workers[w] EXCEPT !.pc = "cancel_updatebook",
                         !.snapB = [books[workers[w].bid] EXCEPT
                                        !.availableCopies = @ + 1]])
    /\ UNCHANGED <<store, now, instant, ticks>>

CancelReservation_UpdateBook(w, cfg) ==
    /\ workers[w].pc = "cancel_updatebook"
    /\ IF BookMissing(workers[w].bid)
       THEN /\ books' = books
            /\ Done(w, cfg, workers[w], "ok", "none")
       ELSE /\ books' = [books EXCEPT ![workers[w].bid] = workers[w].snapB]
            /\ Done(w, cfg, workers[w], "ok",
                    IF workers[w].snapB.availableCopies
                           = books[workers[w].bid].availableCopies + 1
                    THEN "released" ELSE "none")
    /\ UNCHANGED <<users, loans, reservations, now, instant, ticks>>

(***************************************************************************)
(* UserHandler.BorrowFromReservation / Client.CompleteReservation          *)
(***************************************************************************)
BorrowFromReservation_Get(w, cfg, u, r) ==
    /\ CanStart(w, cfg)
    /\ LoanRoom(cfg)
    /\ LET rec == [IdleWorker EXCEPT !.op = "BorrowRes", !.uid = u, !.rid = r]
           reservation == reservations[r]
       IN IF reservation.status = "none"
          THEN Done(w, cfg, rec, "NotFound", "none")
          ELSE IF reservation.userId # u
          THEN Done(w, cfg, rec, "Forbidden", "none")
          ELSE IF ~CanBeCompleted(reservation, now)
          THEN Done(w, cfg, rec, "NotReady", "none")
          ELSE SetW(w, [rec EXCEPT !.pc = "bfr_getuser",
                                   !.bid = reservation.bookId])
    /\ UNCHANGED <<store, now, instant, ticks>>

BorrowFromReservation_GetUser(w, cfg) ==
    /\ workers[w].pc = "bfr_getuser"
    /\ LET user == users[workers[w].uid]
       IN IF ~CanBorrow(user)
          THEN Done(w, cfg, workers[w], "CannotBorrow", "none")
          ELSE SetW(w, [workers[w] EXCEPT !.pc = "bfr_create",
                            !.snapU = [user EXCEPT !.currentLoans = @ + 1]])
    /\ UNCHANGED <<store, now, instant, ticks>>

BorrowFromReservation_CreateLoan(w, cfg) ==
    /\ workers[w].pc = "bfr_create"
    /\ \E code \in 1..cfg.codes :
       LET l == CHOOSE x \in FreeLoanIds : \A y \in FreeLoanIds : x <= y IN
         /\ CreateLoan(l, workers[w].bid, workers[w].uid, code)
         /\ SetW(w, [workers[w] EXCEPT !.pc = "bfr_updateuser", !.lid = l])
    /\ UNCHANGED <<books, users, reservations, now, instant, ticks>>

BorrowFromReservation_UpdateUser(w, cfg) ==
    /\ workers[w].pc = "bfr_updateuser"
    /\ users' = [users EXCEPT ![workers[w].uid] = workers[w].snapU]
    /\ SetW(w, [workers[w] EXCEPT !.pc = "complete_get", !.snapU = NoUser])
    /\ UNCHANGED <<books, loans, reservations, now, instant, ticks>>

CompleteReservation_Get(w, cfg) ==
    /\ workers[w].pc = "complete_get"
    /\ LET reservation == reservations[workers[w].rid]
       IN IF ~CanBeCompleted(reservation, now)
          THEN Done(w, cfg, workers[w], "ok", "none")
          ELSE SetW(w, [workers[w] EXCEPT !.pc = "complete_set",
                            !.snapR = [reservation EXCEPT !.status = "completed"]])
    /\ UNCHANGED <<store, now, instant, ticks>>

CompleteReservation_Set(w, cfg) ==
    /\ workers[w].pc = "complete_set"
    /\ reservations' = [reservations EXCEPT ![workers[w].rid] = workers[w].snapR]
    /\ Done(w, cfg, workers[w], "ok", "none")
    /\ UNCHANGED <<books, users, loans, now, instant, ticks>>

(***************************************************************************)
(* CatalogHandler.DeleteBook / Client.DeleteBook                           *)
(***************************************************************************)
DeleteBook_HasActiveLoans(w, cfg, b) ==
    /\ CanStart(w, cfg)
    /\ LET rec == [IdleWorker EXCEPT !.op = "Delete", !.bid = b]
       IN IF HasActiveLoans(b)
          THEN Done(w, cfg, rec, "Conflict", "none")
          ELSE SetW(w, [rec EXCEPT !.pc = "delete_book"])
    /\ UNCHANGED <<store, now, instant, ticks>>

DeleteBook_Delete(w, cfg) ==
    /\ workers[w].pc = "delete_book"
    /\ IF BookMissing(workers[w].bid)
       THEN /\ books' = books
            /\ Done(w, cfg, workers[w], "NotFound", "none")
       ELSE /\ books' = [books EXCEPT ![workers[w].bid] = NoBook]
            /\ Done(w, cfg, workers[w], "ok", "deleted")
    /\ UNCHANGED <<users, loans, reservations, now, instant, ticks>>

(***************************************************************************)
(* StaffHandler.UpdateUser: the staff edit of max_loans and is_active,     *)
(* which reads the user and writes the whole record back.                  *)
(***************************************************************************)
StaffUpdateUser_GetUser(w, cfg, u, maxLoans, isActive) ==
    /\ CanStart(w, cfg)
    /\ LET rec == [IdleWorker EXCEPT !.op = "StaffUpdate", !.uid = u]
       IN IF maxLoans < 1
          THEN Done(w, cfg, rec, "BadRequest", "none")
          ELSE SetW(w, [rec EXCEPT !.pc = "staffupdate_set",
                            !.snapU = [users[u] EXCEPT !.maxLoans = maxLoans,
                                                       !.isActive = isActive]])
    /\ UNCHANGED <<store, now, instant, ticks>>

StaffUpdateUser_Set(w, cfg) ==
    /\ workers[w].pc = "staffupdate_set"
    /\ users' = [users EXCEPT ![workers[w].uid] = workers[w].snapU]
    /\ Done(w, cfg, workers[w], "ok", "none")
    /\ UNCHANGED <<books, loans, reservations, now, instant, ticks>>

(***************************************************************************)
(* The clock                                                               *)
(***************************************************************************)
\* Time passes: by one clock tick, or by one of the periods the code uses.
ClockSteps == {1, Days(ReadyWindowDays), Days(LoanPeriodDays),
               Days(LoanPeriodDays + 5)}

\* Mutant of Tick: the passing of time sweeps expired ready reservations.
Tick_Sweeps(cfg) ==
    /\ ticks < cfg.ticks
    /\ \E d \in ClockSteps :
         /\ now' = now + d
         /\ reservations' =
              [r \in ResIds |->
                 IF reservations[r].status = "ready"
                    /\ now + d > reservations[r].expiryDate
                 THEN [reservations[r] EXCEPT !.status = "expired"]
                 ELSE reservations[r]]
    /\ ticks' = ticks + 1
    /\ UNCHANGED <<books, users, loans, instant, workers, last>>

Tick(cfg) ==
    /\ ticks < cfg.ticks
    /\ \E d \in ClockSteps : now' = now + d
    /\ ticks' = ticks + 1
    /\ UNCHANGED <<store, instant, workers, last>>

(***************************************************************************)
(* Specifications                                                          *)
(***************************************************************************)
Begin(w, cfg) ==
    \/ \E u \in 1..cfg.users, b \in Books : BorrowBook_GetUser(w, cfg, u, b)
    \/ \E code \in 1..cfg.codes : ConfirmPickup_Query(w, cfg, code)
    \/ \E l \in LoanIds : ReturnLoan_GetLoan(w, cfg, l)
    \/ \E u \in 1..cfg.users, b \in Books : ReserveBook_GetUser(w, cfg, u, b)
    \/ \E u \in 1..cfg.users, r \in ResIds : CancelReservation_Get(w, cfg, u, r)
    \/ \E u \in 1..cfg.users, r \in ResIds : BorrowFromReservation_Get(w, cfg, u, r)

Step(w, cfg) ==
    \/ BorrowBook_GetBook(w, cfg)
    \/ BorrowBook_CreateLoan(w, cfg)
    \/ BorrowBook_Decrement(w, cfg)
    \/ BorrowBook_IncUser(w, cfg)
    \/ ConfirmPickup_Set(w, cfg)
    \/ ReturnLoan_UpdateLoan(w, cfg)
    \/ ReturnLoan_GetUser(w, cfg)
    \/ ReturnLoan_UpdateUser(w, cfg)
    \/ ReturnLoan_GetNext(w, cfg)
    \/ ReturnLoan_GetBook(w, cfg)
    \/ ReturnLoan_UpdateBook(w, cfg)
    \/ MarkReservationReady_Get(w, cfg)
    \/ MarkReservationReady_Set(w, cfg)
    \/ ReserveBook_CheckExisting(w, cfg)
    \/ ReserveBook_Create(w, cfg)
    \/ CancelReservation_Check(w, cfg)
    \/ CancelReservation_Set(w, cfg)
    \/ CancelReservation_GetNext(w, cfg)
    \/ CancelReservation_GetBook(w, cfg)
    \/ CancelReservation_UpdateBook(w, cfg)
    \/ BorrowFromReservation_GetUser(w, cfg)
    \/ BorrowFromReservation_CreateLoan(w, cfg)
    \/ BorrowFromReservation_UpdateUser(w, cfg)
    \/ CompleteReservation_Get(w, cfg)
    \/ CompleteReservation_Set(w, cfg)

\* Concurrent requests: up to MaxInFlight handlers interleave; the clock
\* stands still.
ConcCfg == [inflight |-> MaxInFlight, users |-> ConcUsers, codes |-> 1,
            loans |-> MaxLoanRecs, res |-> ConcRes, records |-> ConcRecords,
            ticks |-> 0, observe |-> FALSE, faults |-> FALSE]

Next == \E w \in Workers : Begin(w, ConcCfg) \/ Step(w, ConcCfg)

Spec == Init /\ [][Next]_vars

\* One request at a time, responses observed.
SeqCfg == [inflight |-> 1, users |-> SeqUsers, codes |-> NumCodes,
           loans |-> MaxLoanRecs, res |-> SeqRes, records |-> SeqRecords,
           ticks |-> 0, observe |-> TRUE, faults |-> FALSE]

NextSeq == \E w \in Workers : Begin(w, SeqCfg) \/ Step(w, SeqCfg)

SpecSeq == Init /\ [][NextSeq]_vars

\* One request at a time, with the clock running between store operations.
ClockCfg == [inflight |-> 1, users |-> 1, codes |-> 1,
             loans |-> ClockLoans, res |-> ClockRes, records |-> ClockRecords,
             ticks |-> MaxTicks, observe |-> TRUE, faults |-> FALSE]

NextClock ==
    \/ \E w \in Workers : Begin(w, ClockCfg) \/ Step(w, ClockCfg)
    \/ Tick(ClockCfg)

SpecClock == Init /\ [][NextClock]_vars

\* A queue of reservations on one book: every user may reserve, one loan.
QueueCfg == [inflight |-> QueueInFlight, users |-> NumUsers, codes |-> 1,
             loans |-> QueueLoans, res |-> MaxRes, records |-> QueueRecords,
             ticks |-> 0, observe |-> FALSE, faults |-> FALSE]

NextQueue == \E w \in Workers : Begin(w, QueueCfg) \/ Step(w, QueueCfg)

SpecQueue == Init /\ [][NextQueue]_vars

\* One request at a time, with the staff editing users and the clock running.
StaffCfg == [inflight |-> 1, users |-> 1, codes |-> 1,
             loans |-> StaffLoans, res |-> 1, records |-> StaffRecords,
             ticks |-> StaffTicks, observe |-> TRUE, faults |-> FALSE]

NextStaff ==
    \/ \E w \in Workers : Begin(w, StaffCfg) \/ Step(w, StaffCfg)
    \/ \E w \in Workers, u \in 1..StaffCfg.users,
          maxLoans \in 0..StaffMaxLoans, isActive \in BOOLEAN :
          StaffUpdateUser_GetUser(w, StaffCfg, u, maxLoans, isActive)
    \/ \E w \in Workers : StaffUpdateUser_Set(w, StaffCfg)
    \/ Tick(StaffCfg)

SpecStaff == Init /\ [][NextStaff]_vars

\* Concurrent Borrow requests only, responses observed, and a store whose
\* counter update may fail: no request puts a copy back.
LedgerCfg == [inflight |-> LedgerInFlight, users |-> LedgerUsers, codes |-> 1,
              loans |-> LedgerLoans, res |-> 0, records |-> LedgerLoans,
              ticks |-> 0, observe |-> TRUE, faults |-> TRUE]

NextLedger ==
    \E w \in Workers :
        \/ \E u \in 1..LedgerCfg.users, b \in Books :
              BorrowBook_GetUser(w, LedgerCfg, u, b)
        \/ BorrowBook_GetBook(w, LedgerCfg)
        \/ BorrowBook_CreateLoan(w, LedgerCfg)
        \/ BorrowBook_Decrement(w, LedgerCfg)
        \/ BorrowBook_IncUser(w, LedgerCfg)

SpecLedger == Init /\ [][NextLedger]_vars

\* Loans of a book that the staff may delete from the catalog: concurrent
\* Borrow, ConfirmPickup, Return and DeleteBook requests with the clock
\* running, responses observed.
CatalogCfg == [inflight |-> CatalogInFlight, users |-> CatalogUsers, codes |-> 1,
               loans |-> CatalogLoans, res |-> 0, records |-> CatalogLoans,
               ticks |-> CatalogTicks, observe |-> TRUE, faults |-> FALSE]

NextCatalog ==
    \/ Tick(CatalogCfg)
    \/ \E w \in Workers :
        \/ \E u \in 1..CatalogCfg.users, b \in Books :
              BorrowBook_GetUser(w, CatalogCfg, u, b)
        \/ BorrowBook_GetBook(w, CatalogCfg)
        \/ BorrowBook_CreateLoan(w, CatalogCfg)
        \/ BorrowBook_Decrement(w, CatalogCfg)
        \/ BorrowBook_IncUser(w, CatalogCfg)
        \/ \E code \in 1..CatalogCfg.codes : ConfirmPickup_Query(w, CatalogCfg, code)
        \/ ConfirmPickup_Set(w, CatalogCfg)
        \/ \E l \in LoanIds : ReturnLoan_GetLoan(w, CatalogCfg, l)
        \/ ReturnLoan_UpdateLoan(w, CatalogCfg)
        \/ ReturnLoan_GetUser(w, CatalogCfg)
        \/ ReturnLoan_UpdateUser(w, CatalogCfg)
        \/ ReturnLoan_GetNext(w, CatalogCfg)
        \/ ReturnLoan_GetBook(w, CatalogCfg)
        \/ ReturnLoan_UpdateBook(w, CatalogCfg)
        \/ \E b \in Books : DeleteBook_HasActiveLoans(w, CatalogCfg, b)
        \/ DeleteBook_Delete(w, CatalogCfg)

SpecCatalog == Init /\ [][NextCatalog]_vars

\* Concurrent Borrow, ConfirmPickup and Return requests of one user while
\* the staff edits the user record.
EditCfg == [inflight |-> EditInFlight, users |-> 1, codes |-> 1,
            loans |-> EditLoans, res |-> 0, records |-> EditLoans,
            ticks |-> 0, observe |-> FALSE, faults |-> FALSE]

NextEdit ==
    \E w \in Workers :
        \/ \E u \in 1..EditCfg.users, b \in Books :
              BorrowBook_GetUser(w, EditCfg, u, b)
        \/ BorrowBook_GetBook(w, EditCfg)
        \/ BorrowBook_CreateLoan(w, EditCfg)
        \/ BorrowBook_Decrement(w, EditCfg)
        \/ BorrowBook_IncUser(w, EditCfg)
        \/ \E code \in 1..EditCfg.codes : ConfirmPickup_Query(w, EditCfg, code)
        \/ ConfirmPickup_Set(w, EditCfg)
        \/ \E l \in LoanIds : ReturnLoan_GetLoan(w, EditCfg, l)
        \/ ReturnLoan_UpdateLoan(w, EditCfg)
        \/ ReturnLoan_GetUser(w, EditCfg)
        \/ ReturnLoan_UpdateUser(w, EditCfg)
        \/ ReturnLoan_GetNext(w, EditCfg)
        \/ ReturnLoan_GetBook(w, EditCfg)
        \/ ReturnLoan_UpdateBook(w, EditCfg)
        \/ \E u \in 1..EditCfg.users, maxLoans \in 0..StaffMaxLoans,
              isActive \in BOOLEAN :
              StaffUpdateUser_GetUser(w, EditCfg, u, maxLoans, isActive)
        \/ StaffUpdateUser_Set(w, EditCfg)

SpecEdit == Init /\ [][NextEdit]_vars

\* Concurrent Reserve, CancelReservation and BorrowFromReservation requests:
\* a reader collecting a ready reservation, possibly with the same request
\* delivered twice.
ClaimCfg == [inflight |-> ClaimInFlight, users |-> ClaimUsers, codes |-> 1,
             loans |-> ClaimLoans, res |-> ClaimRes, records |-> ClaimRecords,
             ticks |-> 0, observe |-> FALSE, faults |-> FALSE]

NextClaim ==
    \E w \in Workers :
        \/ \E u \in 1..ClaimCfg.users, b \in Books :
              ReserveBook_GetUser(w, ClaimCfg, u, b)
        \/ ReserveBook_CheckExisting(w, ClaimCfg)
        \/ ReserveBook_Create(w, ClaimCfg)
        \/ \E u \in 1..ClaimCfg.users, r \in ResIds :
              CancelReservation_Get(w, ClaimCfg, u, r)
        \/ CancelReservation_Check(w, ClaimCfg)
        \/ CancelReservation_Set(w, ClaimCfg)
        \/ CancelReservation_GetNext(w, ClaimCfg)
        \/ CancelReservation_GetBook(w, ClaimCfg)
        \/ CancelReservation_UpdateBook(w, ClaimCfg)
        \/ MarkReservationReady_Get(w, ClaimCfg)
        \/ MarkReservationReady_Set(w, ClaimCfg)
        \/ \E u \in 1..ClaimCfg.users, r \in ResIds :
              BorrowFromReservation_Get(w, ClaimCfg, u, r)
        \/ BorrowFromReservation_GetUser(w, ClaimCfg)
        \/ BorrowFromReservation_CreateLoan(w, ClaimCfg)
        \/ BorrowFromReservation_UpdateUser(w, ClaimCfg)
        \/ CompleteReservation_Get(w, ClaimCfg)
        \/ CompleteReservation_Set(w, ClaimCfg)

SpecClaim == Init /\ [][NextClaim]_vars

\* Concurrent Borrow, Reserve and CancelReservation requests with the clock
\* running, responses observed: cancels race on the queue of one book.
RaceCfg == [inflight |-> RaceInFlight, users |-> RaceUsers, codes |-> 1,
            loans |-> RaceLoans, res |-> RaceRes, records |-> RaceRecords,
            ticks |-> RaceTicks, observe |-> TRUE, faults |-> FALSE]

NextRace ==
    \/ \E w \in Workers :
          \/ \E u \in 1..RaceCfg.users, b \in Books :
                BorrowBook_GetUser(w, RaceCfg, u, b)
          \/ BorrowBook_GetBook(w, RaceCfg)
          \/ BorrowBook_CreateLoan(w, RaceCfg)
          \/ BorrowBook_Decrement(w, RaceCfg)
          \/ BorrowBook_IncUser(w, RaceCfg)
          \/ \E u \in 1..RaceCfg.users, b \in Books :
                ReserveBook_GetUser(w, RaceCfg, u, b)
          \/ ReserveBook_CheckExisting(w, RaceCfg)
          \/ ReserveBook_Create(w, RaceCfg)
          \/ \E u \in 1..RaceCfg.users, r \in ResIds :
                CancelReservation_Get(w, RaceCfg, u, r)
          \/ CancelReservation_Check(w, RaceCfg)
          \/ CancelReservation_Set(w, RaceCfg)
          \/ CancelReservation_GetNext(w, RaceCfg)
          \/ CancelReservation_GetBook(w, RaceCfg)
          \/ CancelReservation_UpdateBook(w, RaceCfg)
          \/ MarkReservationReady_Get(w, RaceCfg)
          \/ MarkReservationReady_Set(w, RaceCfg)
    \/ Tick(RaceCfg)

SpecRace == Init /\ [][NextRace]_vars

(***************************************************************************)
(* Properties                                                              *)
(***************************************************************************)
Quiescent == InFlight = {}

PendingOn(b) ==
    {r \in ResIds : reservations[r].status = "pending" /\ reservations[r].bookId = b}

\* The reservations of book b that this step moves from pending to ready.
BecameReady(b) ==
    {r \in ResIds : /\ reservations[r].bookId = b
                    /\ reservations[r].status = "pending"
                    /\ reservations'[r].status = "ready"}

\* Worker w ends its request in this step.
Ends(w) == workers[w].pc # "idle" /\ workers'[w].pc = "idle"

\* C1: for every book, 0 <= availableCopies <= totalCopies in every
\* reachable state.
C1_AvailableWithinTotal ==
    \A b \in Books : /\ 0 <= books[b].availableCopies
                     /\ books[b].availableCopies <= books[b].totalCopies

\* C2: for every user, 0 <= currentLoans <= maxLoans in every reachable
\* state, also under concurrent requests of the same user.
C2_CurrentLoansWithinMax ==
    \A u \in Users : /\ 0 <= users[u].currentLoans
                     /\ users[u].currentLoans <= users[u].maxLoans

\* C3: the step that ends a Return of an active loan on book b (the loan is
\* recorded as returned) has done exactly one of: moved one pending
\* reservation of b to ready, raised b's availableCopies by exactly 1.
C3_ReturnExactlyOne ==
    [][\A w \in Workers :
         (workers[w].op = "Return" /\ Ends(w) /\ workers[w].pc # "return_updateloan")
         => LET b == workers[w].bid
                queued == Cardinality(BecameReady(b)) = 1
                pooled == books'[b].availableCopies = books[b].availableCopies + 1
            IN (queued \/ pooled) /\ ~(queued /\ pooled)]_vars

\* C4: when a Return or a CancelReservation finds that another caller has
\* already made its next pending reservation ready, it does not end there
\* with a failure: it goes on to the pool release (GetBook, then the
\* increment); and a reservation that is already ready is not marked again.
C4_LoserFallsBackToPool ==
    [][\A w \in Workers :
         /\ (workers[w].pc = "markready_get"
             /\ reservations[workers[w].next].status = "ready")
            => workers'[w].pc \in {"markready_get", "return_getbook", "cancel_getbook"}
         /\ (workers[w].pc = "markready_set" /\ Ends(w))
            => reservations[workers[w].next].status # "ready"]_vars

\* C5: of two concurrent markReady calls on the same pending reservation
\* only one writes it: a call never writes a reservation that the other
\* call has already made ready.
C5_MarkReadyWritesOnce ==
    [][\A w \in Workers :
         (workers[w].pc = "markready_set" /\ workers'[w].pc # "markready_set")
         => ~(reservations[workers[w].next].status = "ready"
              /\ reservations'[workers[w].next] = workers[w].snapR)]_vars

\* C6: nextPending returns the pending reservation of the book with the
\* oldest creation time whatever the order of the scan, and no reservation
\* is made ready while an older reservation of the same book is pending.
C6_NextIsOldest ==
    \A b \in Books, order \in ScanOrders :
        LET n == GetNextReservation(order, b)
        IN IF PendingOn(b) = {} THEN n = 0
           ELSE /\ n \in PendingOn(b)
                /\ \A r \in PendingOn(b) :
                     reservations[n].createdAt <= reservations[r].createdAt

C6_NoOvertaking ==
    \A w \in Workers :
        (workers[w].pc = "markready_set" /\ Ends(w))
        => \A r \in PendingOn(workers[w].bid) :
             ~(reservations[r].createdAt < reservations[workers[w].next].createdAt)

DaysLate(l) == (loans[l].returnDate - loans[l].dueDate) \div TicksPerDay

\* C7: a loan returned d >= 1 whole days after its due date carries
\* fineAmount = d.
C7_FineIsDaysLate ==
    \A l \in LoanIds :
        (loans[l].status = "returned" /\ loans[l].returnDate > loans[l].dueDate
         /\ DaysLate(l) >= 1)
        => loans[l].fineAmount = DaysLate(l) * FinePerDay

\* C8: a loan returned while its due date is still in the future carries
\* fineAmount = 0.
C8_NoFineBeforeDue ==
    \A l \in LoanIds :
        (loans[l].status = "returned" /\ loans[l].returnDate < loans[l].dueDate)
        => loans[l].fineAmount = 0

\* C8 witness: a loan borrowed, picked up and returned before its due date.
C8_Witness ==
    /\ last.op = "Return" /\ last.result = "ok"
    /\ loans[last.lid].status = "returned"
    /\ loans[last.lid].dueDate > 0
    /\ loans[last.lid].returnDate < loans[last.lid].dueDate
    /\ loans[last.lid].fineAmount = 0

\* Scenario A: no reservation was ever made and l is the only loan.
ScenarioA(l) == Quiescent /\ ExistingRes = {} /\ ExistingLoans = {l}

C9_States ==
    \A l \in LoanIds :
        (ScenarioA(l) /\ last.result = "ok")
        => LET b == books[loans[l].bookId]
           IN /\ last.op = "Borrow"
                 => /\ loans[l].status = "pending_pickup"
                    /\ b.availableCopies = b.totalCopies - 1
              /\ last.op = "Confirm"
                 => /\ loans[l].status = "active"
                    /\ b.availableCopies = b.totalCopies - 1
              /\ last.op = "Return"
                 => /\ loans[l].status = "returned"
                    /\ b.availableCopies = b.totalCopies

C9_ConfirmDue ==
    \A w \in Workers :
        workers[w].pc = "confirm_set" /\ Ends(w)
        => /\ loans[workers[w].lid].status = "pending_pickup"
           /\ loans'[workers[w].lid].status = "active"
           /\ loans'[workers[w].lid].dueDate = now + LoanPeriodDays * TicksPerDay

\* C9: Scenario A.  With no reservations, Borrow leaves the loan in
\* pending_pickup and one copy fewer available; ConfirmPickup with the
\* loan's code makes it active with dueDate = now + 14 days; Return makes it
\* returned and the copy available again.
C9_ScenarioA == [](C9_States) /\ [][C9_ConfirmDue]_vars

\* C9 witness: the single-copy book after Borrow, ConfirmPickup and Return.
C9_Witness ==
    \E l \in LoanIds :
        /\ ScenarioA(l)
        /\ last.op = "Return" /\ last.result = "ok" /\ last.lid = l
        /\ loans[l].status = "returned"
        /\ loans[l].dueDate = LoanPeriodDays * TicksPerDay
        /\ books[loans[l].bookId].totalCopies = 1
        /\ books[loans[l].bookId].availableCopies = 1

\* Scenario B: r is the only reservation ever made, on a book whose loan l1
\* was returned.
ScenarioB(l1, r) ==
    /\ Quiescent
    /\ ExistingRes = {r}
    /\ loans[l1].status = "returned"
    /\ loans[l1].bookId = reservations[r].bookId
    /\ loans[l1].userId # reservations[r].userId

C10_States ==
    \A l1 \in LoanIds, r \in ResIds :
        ScenarioB(l1, r)
        => LET b == books[reservations[r].bookId]
           IN /\ (reservations[r].status = "ready" /\ ExistingLoans = {l1})
                 => b.availableCopies = b.totalCopies - 1
              /\ (last.op = "BorrowRes" /\ last.result = "ok" /\ last.rid = r)
                 => /\ reservations[r].status = "completed"
                    /\ loans[last.lid].status = "pending_pickup"
                    /\ loans[last.lid].userId = reservations[r].userId
                    /\ loans[last.lid].bookId = reservations[r].bookId
                    /\ (ExistingLoans = {l1, last.lid}
                        => b.availableCopies = b.totalCopies - 1)

C10_Steps ==
    \A w \in Workers :
        /\ (workers[w].op = "Reserve" /\ workers[w].pc = "reserve_create")
           => \E r \in FreeResIds : reservations'[r].status = "pending"
        /\ (workers[w].op = "Return" /\ workers[w].pc = "return_getnext"
            /\ PendingOn(workers[w].bid) # {})
           => workers'[w].pc \in {"return_getnext", "markready_get"}
        /\ (workers[w].op = "Return" /\ workers[w].pc = "markready_set" /\ Ends(w))
           => /\ reservations[workers[w].next].status = "pending"
              /\ reservations'[workers[w].next].status = "ready"
              /\ books' = books
              /\ last'.result = "ok"
        /\ (workers[w].op = "BorrowRes" /\ workers'[w] # workers[w])
           => books' = books

\* C10: Scenario B.  Reserve creates a pending reservation; the Return of
\* the loan on that book makes the reservation ready and leaves
\* availableCopies as it was; BorrowFromReservation creates a new
\* pending_pickup loan for the reserving user, completes the reservation and
\* leaves availableCopies as it was.
C10_ScenarioB == [](C10_States) /\ [][C10_Steps]_vars

\* C10 witness: the single-copy book after U1's loan was returned into U2's
\* reservation and U2 borrowed from it.
C10_Witness ==
    \E l1, l2 \in LoanIds, r \in ResIds :
        /\ ScenarioB(l1, r)
        /\ ExistingLoans = {l1, l2}
        /\ last.op = "BorrowRes" /\ last.result = "ok"
        /\ last.rid = r /\ last.lid = l2
        /\ reservations[r].status = "completed"
        /\ loans[l2].status = "pending_pickup"
        /\ books[reservations[r].bookId].totalCopies = 1
        /\ books[reservations[r].bookId].availableCopies = 0

\* A record of loan l appears in this step.
LoanCreated(l) == loans[l].status = "none" /\ loans'[l].status # "none"

\* C11: a Borrow by a user who is inactive or at the loan limit ends at once
\* and changes no record; and whenever a loan record is created, its user
\* is active with currentLoans < maxLoans.
C11_LoanOnlyForEligibleUser ==
    [][/\ \A w \in Workers, u \in Users, b \in Books :
            (BorrowBook_GetUser(w, ConcCfg, u, b)
             /\ ~(users[u].isActive /\ users[u].currentLoans < users[u].maxLoans))
            => (workers'[w].pc = "idle" /\ UNCHANGED store)
       /\ \A l \in LoanIds :
            LoanCreated(l)
            => LET user == users[loans'[l].userId]
               IN user.isActive /\ user.currentLoans < user.maxLoans]_vars

\* C12: a Borrow that finds availableCopies = 0 on the book reports
\* Unavailable and changes no record: no loan, the book and the user as
\* they were.
C12_UnavailableAborts ==
    [][\A w \in Workers :
         (workers[w].op = "Borrow" /\ workers[w].pc = "borrow_getbook"
          /\ books[workers[w].bid].availableCopies = 0)
         => /\ workers'[w].pc = "idle"
            /\ last'.op = "Borrow" /\ last'.result = "Unavailable"
            /\ UNCHANGED store]_vars

\* C12 witness: a Borrow was refused as Unavailable; the book has no copy
\* available and the user still has no loan.
C12_Witness ==
    /\ last.op = "Borrow" /\ last.result = "Unavailable"
    /\ books[last.bid].availableCopies = 0
    /\ users[last.uid].currentLoans = 0
    /\ \A l \in LoanIds : loans[l].userId # last.uid

\* C13: a Return of a loan that is pending_pickup or already returned
\* reports NotActive and leaves loans, users, books and reservations
\* unchanged; a Return goes on only for an active loan.
C13_ReturnNotActive ==
    [][\A w \in Workers, l \in LoanIds :
         ReturnLoan_GetLoan(w, SeqCfg, l)
         => IF loans[l].status \in {"pending_pickup", "returned"}
            THEN /\ workers'[w].pc = "idle"
                 /\ last'.op = "Return" /\ last'.lid = l
                 /\ last'.result = "NotActive"
                 /\ UNCHANGED store
            ELSE loans[l].status = "active" => workers'[w].pc # "idle"]_vars

\* C13 witness: a second Return of a returned loan was refused.
C13_Witness ==
    /\ last.op = "Return" /\ last.result = "NotActive"
    /\ loans[last.lid].status = "returned"

\* C14: ConfirmPickup on a code that matches a pending_pickup loan makes
\* that loan active with dueDate = now + 14 days and changes nothing else:
\* no other field or loan, no book, no user, no reservation.
C14_ConfirmFrame ==
    [][\A w \in Workers :
         /\ (workers[w].pc = "idle" /\ workers'[w].pc = "confirm_set")
            => /\ loans[workers'[w].lid].status = "pending_pickup"
               /\ loans[workers'[w].lid].pickupCode = workers'[w].code
               /\ UNCHANGED store
         /\ (workers[w].pc = "confirm_set" /\ workers'[w].pc # "confirm_set")
            => LET l == workers[w].lid
               IN /\ loans[l].status = "pending_pickup"
                  /\ loans' = [loans EXCEPT
                                 ![l].status = "active",
                                 ![l].dueDate = now + LoanPeriodDays * TicksPerDay]
                  /\ UNCHANGED <<books, users, reservations>>
                  /\ last'.op = "Confirm" /\ last'.result = "ok"]_vars

\* C14 witness: a pickup confirmed after the clock has advanced; the copy
\* is still out of the pool and the user's counter still 1.
C14_Witness ==
    /\ last.op = "Confirm" /\ last.result = "ok"
    /\ now > 0
    /\ loans[last.lid].status = "active"
    /\ loans[last.lid].dueDate = now + LoanPeriodDays * TicksPerDay
    /\ books[loans[last.lid].bookId].availableCopies
         = books[loans[last.lid].bookId].totalCopies - 1
    /\ users[loans[last.lid].userId].currentLoans = 1

\* The loans that await pickup under the code.
AwaitingPickup(code) ==
    {l \in LoanIds : loans[l].pickupCode = code /\ loans[l].status = "pending_pickup"}

\* C15: ConfirmPickup on a code that no pending_pickup loan carries reports
\* CodeNotFound and changes no record; it goes on only with a loan that
\* carries the code and is pending_pickup, so the code of an active or
\* returned loan does not match that loan again.
C15_CodeNotFound ==
    [][\A w \in Workers, code \in Codes :
         ConfirmPickup_Query(w, SeqCfg, code)
         => IF AwaitingPickup(code) = {}
            THEN /\ workers'[w].pc = "idle"
                 /\ last'.op = "Confirm" /\ last'.code = code
                 /\ last'.result = "CodeNotFound"
                 /\ UNCHANGED store
            ELSE /\ workers'[w].pc = "confirm_set"
                 /\ workers'[w].lid \in AwaitingPickup(code)]_vars

\* C15 witness: the code of a loan that is already active or returned was
\* submitted again and not found.
C15_Witness ==
    /\ last.op = "Confirm" /\ last.result = "CodeNotFound"
    /\ \E l \in LoanIds : /\ loans[l].pickupCode = last.code
                          /\ loans[l].status \in {"active", "returned"}

LoanStatusSteps ==
    {<<"none", "pending_pickup">>, <<"pending_pickup", "active">>,
     <<"active", "returned">>}

\* C16: whenever the status of a loan changes, it moves one step forward
\* along pending_pickup -> active -> returned; a returned loan keeps its
\* status.
C16_LoanStatusForward ==
    [][\A l \in LoanIds :
         loans'[l].status # loans[l].status
         => <<loans[l].status, loans'[l].status>> \in LoanStatusSteps]_vars

ReservationStatusSteps ==
    {<<"none", "pending">>, <<"pending", "ready">>,
     <<"ready", "completed">>, <<"ready", "expired">>,
     <<"pending", "cancelled">>, <<"ready", "cancelled">>}

\* C17: whenever the status of a reservation changes, it moves along
\* pending -> ready -> {completed, expired} or pending|ready -> cancelled;
\* a completed, cancelled or expired reservation keeps its status.
C17_ReservationStatusForward ==
    [][\A r \in ResIds :
         reservations'[r].status # reservations[r].status
         => <<reservations[r].status, reservations'[r].status>>
              \in ReservationStatusSteps]_vars

\* The pending or ready reservations of user u on book b.
ActiveReservations(u, b) ==
    {r \in ResIds : /\ reservations[r].userId = u
                    /\ reservations[r].bookId = b
                    /\ reservations[r].status \in {"pending", "ready"}}

\* C18: in every reachable state no user has two pending or ready
\* reservations on the same book.
C18_OneActiveReservation ==
    \A u \in Users, b \in Books : Cardinality(ActiveReservations(u, b)) <= 1

\* C19: a BorrowFromReservation that gets past its checks creates exactly
\* one loan, pending_pickup, for the reservation's book and user; raises the
\* user's currentLoans by exactly 1; ends with the reservation completed;
\* and never changes the book.
C19_BorrowFromReservationEffect ==
    [][\A w \in Workers :
         workers[w].op = "BorrowRes"
         => LET r == reservations[workers[w].rid]
                u == workers[w].uid
            IN /\ (workers[w].pc = "bfr_create" /\ workers'[w].pc # "bfr_create")
                  => \E l \in LoanIds :
                       /\ LoanCreated(l)
                       /\ \A k \in LoanIds \ {l} : loans'[k] = loans[k]
                       /\ loans'[l].status = "pending_pickup"
                       /\ loans'[l].bookId = r.bookId
                       /\ loans'[l].userId = r.userId
               /\ (workers[w].pc = "bfr_updateuser"
                   /\ workers'[w].pc # "bfr_updateuser")
                  => users'[u].currentLoans = users[u].currentLoans + 1
               /\ (workers[w].pc \in {"complete_get", "complete_set"} /\ Ends(w))
                  => reservations'[workers[w].rid].status = "completed"
               /\ workers'[w] # workers[w] => books' = books]_vars

C21_ForbiddenForOthers ==
    [][\A w \in Workers, u \in Users, r \in ResIds :
         ((BorrowFromReservation_Get(w, SeqCfg, u, r)
           \/ CancelReservation_Get(w, SeqCfg, u, r))
          /\ reservations[r].status # "none"
          /\ reservations[r].userId # u)
         => /\ workers'[w].pc = "idle"
            /\ last'.op \in {"BorrowRes", "Cancel"}
            /\ last'.uid = u /\ last'.rid = r
            /\ last'.result = "Forbidden"
            /\ UNCHANGED store]_vars

\* C21 witness: another user's cancel of a ready reservation was refused;
\* the reservation is still ready and no copy went back to the pool.
C21_Witness ==
    /\ last.op = "Cancel" /\ last.result = "Forbidden"
    /\ reservations[last.rid].status = "ready"
    /\ reservations[last.rid].userId # last.uid
    /\ \A b \in Books : books[b].availableCopies = 0

\* C22: a CancelReservation that gets past its checks writes the
\* reservation as cancelled and then ends having done exactly one of:
\* moved one pending reservation of the same book to ready (the book
\* untouched), or applied the clamped ledger increment to the book's
\* availableCopies (no reservation made ready).
C22_CancelExactlyOne ==
    [][\A w \in Workers :
         workers[w].op = "Cancel"
         => /\ (workers[w].pc = "cancel_set" /\ workers'[w].pc # "cancel_set")
               => reservations'[workers[w].rid].status = "cancelled"
            /\ (Ends(w) /\ workers[w].pc \in {"markready_get", "markready_set",
                                              "cancel_getbook", "cancel_updatebook"})
               => LET b == workers[w].bid
                      queued == /\ Cardinality(BecameReady(b)) = 1
                                /\ books' = books
                      pooled == /\ BecameReady(b) = {}
                                /\ books' = [books EXCEPT
                                               ![b] = IncrementAvailableCopies(@)]
                  IN (queued \/ pooled) /\ ~(queued /\ pooled)]_vars

\* C23: a CancelReservation by the owner of a completed reservation ends
\* with AlreadyCompleted and changes no record: the reservation stays
\* completed, no other reservation is made ready, no copy is released.
C23_CancelCompletedRefused ==
    [][\A w \in Workers :
         (workers[w].pc = "cancel_check"
          /\ reservations[workers[w].rid].status = "completed")
         => /\ workers'[w].pc = "idle"
            /\ last'.op = "Cancel" /\ last'.rid = workers[w].rid
            /\ last'.result = "AlreadyCompleted"
            /\ UNCHANGED store]_vars

\* C23 witness: the owner's cancel of a completed reservation was refused;
\* the loan made from the reservation is still there.
C23_Witness ==
    /\ last.op = "Cancel" /\ last.result = "AlreadyCompleted"
    /\ reservations[last.rid].status = "completed"
    /\ reservations[last.rid].userId = last.uid
    /\ \E l \in LoanIds : /\ loans[l].userId = last.uid
                          /\ loans[l].status = "pending_pickup"

\* C24: once Borrow has created the loan, a failure of the availability
\* decrement or of the user-counter increment neither removes the loan nor
\* fails the request: the request goes on, reports success with the loan's
\* pickup code, and the loan is still pending_pickup.
C24_BorrowGoesOn ==
    [][\A w \in Workers :
         (workers[w].op = "Borrow" /\ workers'[w] # workers[w])
         => LET l == workers[w].lid IN
            /\ (workers[w].pc = "borrow_decrement"
                /\ ~IsAvailable(books[workers[w].bid]))
               => /\ workers'[w].pc = "borrow_incuser"
                  /\ UNCHANGED store
            /\ workers[w].pc = "borrow_incuser"
               => /\ workers'[w].pc = "idle"
                  /\ loans' = loans /\ books' = books
                  /\ loans'[l].status = "pending_pickup"
                  /\ last'.op = "Borrow" /\ last'.result = "ok"
                  /\ last'.lid = l
                  /\ last'.code = loans[l].pickupCode]_vars

\* C24 witness: a Borrow reported success although both later updates
\* failed: its loan is pending_pickup, the user's counter is still 0, and
\* the book has more loans awaiting pickup than it has copies.
C24_Witness ==
    /\ last.op = "Borrow" /\ last.result = "ok"
    /\ loans[last.lid].status = "pending_pickup"
    /\ users[last.uid].currentLoans = 0
    /\ Cardinality({l \in LoanIds : /\ loans[l].bookId = last.bid
                                    /\ loans[l].status = "pending_pickup"})
         > books[last.bid].totalCopies
    /\ books[last.bid].availableCopies = 0

\* The positions of a request at which it has not yet written any record.
NothingWritten ==
    {"idle", "borrow_getbook", "borrow_create", "return_updateloan",
     "reserve_check", "reserve_create", "cancel_check", "cancel_set",
     "bfr_getuser", "bfr_create"}

\* C25: a Borrow, Return, Reserve, CancelReservation or
\* BorrowFromReservation that fails because a book, loan, reservation or
\* user record is absent fails before it has written anything: the failing
\* step changes no record and the request has made no earlier write.
C25_NotFoundBeforeMutation ==
    [][(/\ last'.result = "NotFound"
        /\ last'.op \in {"Borrow", "Return", "Reserve", "Cancel", "BorrowRes"}
        /\ last' # last \/ \E w \in Workers : Ends(w))
       => /\ \A w \in Workers : Ends(w) => workers[w].pc \in NothingWritten
          /\ UNCHANGED store]_vars

\* C26: in every reachable state every loan that is out (pending_pickup or
\* active, not returned) refers to a book that still exists, also when
\* DeleteBook runs concurrently with Borrow or ConfirmPickup.
C26_LoanedBookExists ==
    \A l \in LoanIds :
        loans[l].status \in {"pending_pickup", "active"}
        => ~BookMissing(loans[l].bookId)

\* The decrement calls on book b that have been carried out: one per loan of
\* b whose Borrow request is past its decrement step.
DecrementCalls(b) ==
    Cardinality({l \in LoanIds : loans[l].bookId = b /\ loans[l].status # "none"})
    - Cardinality({w \in Workers : workers[w].pc = "borrow_decrement"
                                   /\ workers[w].bid = b})

Min(a, b) == IF a <= b THEN a ELSE b

\* C27: the ledger decrement is atomic.  Each decrement call on a book
\* with a copy available lowers availableCopies by exactly 1; a call that
\* finds none fails and writes nothing; availableCopies never goes below 0;
\* and of k calls made on a book that started with n copies exactly
\* min(k, n) have succeeded, whatever the interleaving of the requests.
C27_DecrementAtomic ==
    /\ [](\A b \in Books :
            /\ books[b].availableCopies >= 0
            /\ books[b].totalCopies - books[b].availableCopies
                 = Min(DecrementCalls(b), books[b].totalCopies))
    /\ [][\A w \in Workers :
            (workers[w].pc = "borrow_decrement" /\ workers'[w] # workers[w])
            => LET b == workers[w].bid
               IN IF books[b].availableCopies > 0
                  THEN books' = [books EXCEPT ![b].availableCopies = @ - 1]
                  ELSE books' = books]_vars

\* C27 witness: more decrement calls were made on a book than it had
\* copies; the pool is empty, not negative.
C27_Witness ==
    \E b \in Books :
        /\ DecrementCalls(b) > books[b].totalCopies
        /\ books[b].availableCopies = 0
        /\ \A w \in Workers : workers[w].pc = "idle"

\* C28: every step that raises a book's availableCopies, the pool release
\* of Return and of CancelReservation included, is the clamped increment:
\* it adds 1 only while availableCopies < totalCopies.
C28_IncrementClamped ==
    [][\A b \in Books :
         books'[b].availableCopies > books[b].availableCopies
         => /\ books[b].availableCopies < books[b].totalCopies
            /\ books'[b] = IncrementAvailableCopies(books[b])]_vars

\* C29: markReady on a reservation whose status is not pending fails with
\* WrongState and leaves every record unchanged; on a pending reservation
\* it prepares that reservation with status ready and expiryDate = now + 3
\* days, nothing else altered, and writes exactly that.
C29_MarkReady ==
    [][\A w \in Workers :
         LET r == workers[w].next
             reservation == reservations[r]
         IN /\ (workers[w].pc = "markready_get" /\ workers'[w] # workers[w])
               => IF reservation.status # "pending"
                  THEN /\ workers'[w].pc = "idle"
                       /\ last'.effect = "conflict" /\ last'.next = r
                       /\ UNCHANGED store
                  ELSE /\ workers'[w].pc = "markready_set"
                       /\ workers'[w].snapR =
                            [reservation EXCEPT
                               !.status = "ready",
                               !.expiryDate = now + ReadyWindowDays * TicksPerDay]
                       /\ UNCHANGED store
            /\ (workers[w].pc = "markready_set" /\ workers'[w] # workers[w])
               => /\ reservations' = [reservations EXCEPT ![r] = workers[w].snapR]
                  /\ reservations'[r].status = "ready"
                  /\ UNCHANGED <<books, users, loans>>]_vars

\* C29 witness: after the clock has advanced, markReady was called on a
\* reservation that its owner had cancelled in the meantime; it failed and
\* the reservation is still cancelled.
C29_Witness ==
    /\ last.effect = "conflict"
    /\ reservations[last.next].status = "cancelled"
    /\ now > 0
    /\ \A r \in ResIds : reservations[r].status # "ready"

\* C30: in every reachable state a pending_pickup loan has dueDate zero,
\* and the dueDate of a loan is changed only by the write of ConfirmPickup
\* on that loan.
C30_DueDateOnlyByConfirm ==
    /\ [](\A l \in LoanIds :
            loans[l].status = "pending_pickup" => loans[l].dueDate = 0)
    /\ [][\A l \in LoanIds :
            loans'[l].dueDate # loans[l].dueDate
            => \E w \in Workers : /\ workers[w].pc = "confirm_set"
                                  /\ workers[w].lid = l
                                  /\ workers'[w].pc = "idle"]_vars

\* A ready reservation whose expiryDate has passed.
ReadyExpired(r) ==
    reservations[r].status = "ready" /\ now > reservations[r].expiryDate

\* C31: no reservation ever gets the status expired.  A ready reservation
\* whose expiryDate has passed keeps its status in every step, except that
\* the write of its owner's CancelReservation makes it cancelled (and the
\* write of a BorrowFromReservation of its owner that had passed its checks
\* in time makes it completed); and while it is ready and expired the
\* book's availableCopies is raised only by the release step of a Return or
\* of a CancelReservation.
C31_ExpiredReadyStays ==
    /\ [](\A r \in ResIds : reservations[r].status # "expired")
    /\ [][\A r \in ResIds :
            ReadyExpired(r)
            => /\ reservations'[r].status # "ready"
                  => \E w \in Workers :
                       /\ workers'[w] # workers[w]
                       /\ workers[w].rid = r
                       /\ workers[w].uid = reservations[r].userId
                       /\ \/ /\ workers[w].pc = "cancel_set"
                             /\ reservations'[r].status = "cancelled"
                          \/ /\ workers[w].pc = "complete_set"
                             /\ reservations'[r].status = "completed"
               /\ books'[reservations[r].bookId].availableCopies
                    > books[reservations[r].bookId].availableCopies
                  => \E w \in Workers :
                       /\ workers'[w] # workers[w]
                       /\ workers[w].op \in {"Return", "Cancel"}
                       /\ workers[w].pc \in {"return_updatebook",
                                             "cancel_updatebook"}]_vars

\* C31 witness: a reservation is ready and past its expiryDate, its owner
\* has just been refused the loan, and the copy is still out of the pool.
C31_Witness ==
    \E r \in ResIds :
        /\ ReadyExpired(r)
        /\ last.op = "BorrowRes" /\ last.rid = r /\ last.result = "NotReady"
        /\ books[reservations[r].bookId].availableCopies = 0
        /\ \A l \in LoanIds : loans[l].status \in {"none", "returned"}

\* The loans of book b that are out, and its reservations that hold a copy.
LoansOut(b) ==
    {l \in LoanIds : /\ loans[l].bookId = b
                     /\ loans[l].status \in {"pending_pickup", "active"}}
ReadyOn(b) ==
    {r \in ResIds : reservations[r].bookId = b /\ reservations[r].status = "ready"}

\* C32: copy conservation.  In every state with no request in flight, for
\* every book, availableCopies + the number of its loans that are
\* pending_pickup or active + the number of its ready reservations equals
\* totalCopies.
C32_CopyConservation ==
    Quiescent
    => \A b \in Books :
         books[b].availableCopies + Cardinality(LoansOut(b))
           + Cardinality(ReadyOn(b)) = books[b].totalCopies

\* C33: no over-lending.  In every reachable state, for every book, the
\* number of its loans that are pending_pickup or active is at most
\* totalCopies, also while concurrent Borrow requests race for the last
\* copy.
C33_NoOverLending ==
    \A b \in Books : Cardinality(LoansOut(b)) <= books[b].totalCopies

\* The loans of user u that are out.
LoansOf(u) ==
    {l \in LoanIds : /\ loans[l].userId = u
                     /\ loans[l].status \in {"pending_pickup", "active"}}

\* C34: in every state with no request in flight, every user's
\* currentLoans equals the number of that user's loans that are
\* pending_pickup or active, also after the staff has edited the user while
\* other requests of the user were running.
C34_CurrentLoansCountsLoans ==
    Quiescent
    => \A u \in Users : users[u].currentLoans = Cardinality(LoansOf(u))

\* C35: a reservation is turned into at most one loan by
\* BorrowFromReservation: when a request creates the loan for a reservation,
\* the reservation is not completed yet and no other request has already
\* created a loan for the same reservation.
C35_OneLoanPerReservation ==
    [][\A w \in Workers :
         /\ workers[w].op = "BorrowRes"
         /\ workers[w].pc = "bfr_create"
         /\ workers'[w].pc = "bfr_updateuser"
         => /\ reservations[workers[w].rid].status # "completed"
            /\ \A v \in Workers \ {w} :
                 ~ /\ workers[v].op = "BorrowRes"
                   /\ workers[v].rid = workers[w].rid
                   /\ workers[v].pc \in {"bfr_updateuser", "complete_get",
                                         "complete_set"}]_vars

\* C36: a loan releases its copy at most once: when a Return request ends
\* by putting a copy back into the pool or by marking a reservation ready,
\* the response just before it was not a Return of the same loan that had
\* already released the copy.
C36_ReleaseOnce ==
    [][/\ \E w \in Workers : Ends(w) /\ workers[w].op = "Return"
       /\ last'.op = "Return"
       /\ last'.effect \in {"released", "marked"}
       => ~ /\ last.op = "Return"
            /\ last.lid = last'.lid
            /\ last.effect \in {"released", "marked"}]_vars

\* The steps of a CancelReservation request of worker w that come after its
\* handler has read the reservation.
CancelStep(w) ==
    /\ workers[w].op = "Cancel"
    /\ workers[w].pc # "idle"
    /\ workers'[w] # workers[w]

\* C37: CancelReservation is idempotent: a request whose handler finds the
\* reservation already cancelled changes nothing in the store, in
\* particular it neither raises availableCopies again nor marks another
\* pending reservation ready.
C37_CancelIdempotent ==
    [][\A w \in Workers :
         CancelStep(w) /\ workers[w].reservation.status = "cancelled"
         => UNCHANGED store]_vars

\* C38: cancelling a reservation that is still pending releases no copy:
\* no step of the request changes availableCopies of the book or moves
\* another reservation of the book from pending to ready.
C38_PendingCancelReleasesNothing ==
    [][\A w \in Workers :
         CancelStep(w) /\ workers[w].reservation.status = "pending"
         => /\ books' = books
            /\ BecameReady(workers[w].bid) = {}]_vars

====
